---- MODULE Spec2Model ----
(***************************************************************************)
(* tap-appstore: the incremental extraction engine.                        *)
(*                                                                         *)
(* sync (sync.py) drives one Stream per selected catalog entry;            *)
(* Stream.query_report (streams.py) walks the date windows of a stream,    *)
(* fetches one report per window, emits its rows as records and advances   *)
(* the stream's bookmark in the shared state.                              *)
(*                                                                         *)
(* Instants are wall-clock readings of the process's local zone, which is  *)
(* what .astimezone() makes of both the bookmark and now (streams.py       *)
(* 127-129); all of them lie in the year 2023.  A datetime is a number of  *)
(* ticks since 2023-05-01T00:00:00, a formatted string is the record of    *)
(* the fields its format prints.                                           *)
(***************************************************************************)
EXTENDS Integers, Sequences, FiniteSets, TLC

\* ---------------------------------------------------------------- bounds
\* resolution of the time of day: a day has TicksPerDay instants
TicksPerDay == 2
\* a vendor report has at most MaxRows data rows
MaxRows == 2
\* the tap process is started at most MaxRuns times
MaxRuns == 2

\* ------------------------------------------------------------- constants
\* stop_after_attempt(5)
MaxAttempts == 5

\* Python's None where a bookmark string, a list of rows, or a name is expected
NoBookmark == [month |-> 0, day |-> 0, tod |-> 0]
NoneRep == [none |-> TRUE, lines |-> <<>>]
None == "None"

\* days of the months May..August 2023
MonthDays == (5 :> 31) @@ (6 :> 30) @@ (7 :> 31) @@ (8 :> 31)
Months == DOMAIN MonthDays
FirstMonth == CHOOSE m \in Months : \A n \in Months : m <= n
LastMonth == CHOOSE m \in Months : \A n \in Months : m >= n

RECURSIVE MonthStartDay(_)
\* number of days between 2023-05-01 and the first day of month m
MonthStartDay(m) == IF m = FirstMonth THEN 0
                    ELSE MonthStartDay(m - 1) + MonthDays[m - 1]

\* the same, tabulated
MonthStart == [m \in Months |-> MonthStartDay(m)]

DayOf(t) == t \div TicksPerDay
MonthOf(t) == CHOOSE m \in Months :
                 /\ MonthStart[m] <= DayOf(t)
                 /\ DayOf(t) < MonthStart[m] + MonthDays[m]
DayOfMonth(t) == DayOf(t) - MonthStart[MonthOf(t)] + 1
TimeOfDay(t) == t % TicksPerDay

\* datetime(2023, month, day) + tod
MakeDatetime(month, day, tod) ==
    (MonthStart[month] + day - 1) * TicksPerDay + tod

\* datetime.strptime(bookmark, DATE_FORMAT), DATE_FORMAT = '%Y-%m-%dT%H:%M:%SZ'
Strptime(b) == MakeDatetime(b.month, b.day, b.tod)

\* value.strftime(DATE_FORMAT)
Strftime(t) == [month |-> MonthOf(t), day |-> DayOfMonth(t), tod |-> TimeOfDay(t)]

\* the registry of stream classes (one daily sales stream stands for the seven)
STREAMS == [sales_report |-> "SalesReportStream",
            financial_report |-> "FinancialReportStream"]
StreamNames == DOMAIN STREAMS

\* iterator.strftime(self.report_date_format): '%Y-%m-%d', or '%Y-%m' for
\* FinancialReportStream
ReportDate(s, t) ==
    IF STREAMS[s] = "FinancialReportStream"
    THEN [month |-> MonthOf(t)]
    ELSE [month |-> MonthOf(t), day |-> DayOfMonth(t)]

Min(a, b) == IF a <= b THEN a ELSE b

\* dt + relativedelta(days=1)
AddDay(t) == t + TicksPerDay

\* dt + relativedelta(months=1): next month, the day clipped to its length
AddMonth(t) ==
    MakeDatetime(MonthOf(t) + 1,
                 Min(DayOfMonth(t), MonthDays[MonthOf(t) + 1]),
                 TimeOfDay(t))

\* AddDelta with a fault: the financial stream steps by a day like the others
AddDeltaDaily(s, t) == AddDay(t)

\* iterator + self.delta: Stream.delta, overridden by FinancialReportStream
AddDelta(s, t) ==
    IF STREAMS[s] = "FinancialReportStream" THEN AddMonth(t) ELSE AddDay(t)

\* ReplaceFirstOfMonth with a fault: only the time of day is reset
ReplaceMidnight(t) == MakeDatetime(MonthOf(t), DayOfMonth(t), 0)

\* dt.replace(day=1, hour=0, minute=0, second=0, microsecond=0)
ReplaceFirstOfMonth(t) == MakeDatetime(MonthOf(t), 1, 0)

\* singer.get_bookmark(state, name, 'start_date', config.get('start_date'))
singer_get_bookmark(st, s, cfg) == IF st[s] = NoBookmark THEN cfg ELSE st[s]

\* get_bookmark with a fault: no stream normalises its bookmark
get_bookmark_raw(s, st, cfg) == Strptime(singer_get_bookmark(st, s, cfg))

\* get_bookmark with a fault: the saved bookmark is ignored
get_bookmark_config(s, st, cfg) ==
    IF STREAMS[s] = "FinancialReportStream"
    THEN ReplaceFirstOfMonth(Strptime(cfg))
    ELSE Strptime(cfg)

\* Stream.get_bookmark, FinancialReportStream.get_bookmark
get_bookmark(s, st, cfg) ==
    IF STREAMS[s] = "FinancialReportStream"
    THEN ReplaceFirstOfMonth(Strptime(singer_get_bookmark(st, s, cfg)))
    ELSE Strptime(singer_get_bookmark(st, s, cfg))

\* update_bookmark with a fault: the bookmark of every stream is written
update_bookmark_all(st, s, t) == [x \in DOMAIN st |-> Strftime(t)]

\* Stream.update_bookmark: singer.write_bookmark(state, name, 'start_date', ...)
update_bookmark(st, s, t) == [st EXCEPT ![s] = Strftime(t)]

\* ------------------------------------------------------------ report text
\* A str is a sequence of tokens: words, and the separators " ", "-", "_".
\* A report is what split('\n') and split('\t') make of its text: a sequence
\* of lines, each a sequence of at least one cell (''.split('\t') is ['']).

\* the words with upper-case letters, and what str.lower makes of them
LowerCase == [SKU |-> "sku", Units |-> "units", Vendor |-> "vendor",
              Number |-> "number"]

\* s.lower(), token by token
Lower(token) == IF token \in DOMAIN LowerCase THEN LowerCase[token] ELSE token

\* s.replace(old, new), token by token, for a separator old
Replace(token, old, new) == IF token = old THEN new ELSE token

\* s.lower().replace(' ', '_').replace('-', '_')
NormalizeHeaderCell(s) ==
    [i \in DOMAIN s |-> Replace(Replace(Lower(s[i]), " ", "_"), "-", "_")]

RECURSIVE StripLeft(_)
StripLeft(s) == IF s # <<>> /\ Head(s) = " " THEN StripLeft(Tail(s)) ELSE s

RECURSIVE StripRight(_)
StripRight(s) ==
    IF s # <<>> /\ s[Len(s)] = " "
    THEN StripRight(SubSeq(s, 1, Len(s) - 1))
    ELSE s

\* s.strip()
Strip(s) == StripRight(StripLeft(s))

\* len(line) == 0: the line splits into one empty cell
ZeroLength(line) == line = << <<>> >>

\* header = [... for s in lines[0].split('\t')]
HeaderOf(response_tsv) ==
    [i \in DOMAIN response_tsv[1] |-> NormalizeHeaderCell(response_tsv[1][i])]

\* line_obj of one data line with a fault: a column the line has no cell for
\* is given the empty string
LineObjDefaulted(header, line_cols) ==
    [column \in {header[i] : i \in DOMAIN header} |->
        LET last == CHOOSE i \in DOMAIN header :
                        /\ header[i] = column
                        /\ \A j \in DOMAIN header : header[j] = column => j <= i
        IN  IF last <= Len(line_cols) THEN Strip(line_cols[last]) ELSE <<>>]

\* line_obj of one data line: for i, column in enumerate(header), if
\* i < len(line_cols) then line_obj[column] = line_cols[i].strip(); a later
\* column of the same name overwrites an earlier one
LineObj(header, line_cols) ==
    LET n == Min(Len(header), Len(line_cols)) IN
    [column \in {header[i] : i \in 1..n} |->
        LET last == CHOOSE i \in 1..n :
                        /\ header[i] = column
                        /\ \A j \in 1..n : header[j] = column => j <= i
        IN  Strip(line_cols[last])]

\* parse_api_response with a fault: an empty line is not skipped
parse_api_response_keep_empty(response_tsv) ==
    LET header == HeaderOf(response_tsv)
        data_lines == Tail(response_tsv)
    IN  [none |-> FALSE,
         lines |-> [r \in DOMAIN data_lines |-> LineObj(header, data_lines[r])]]

\* Stream.parse_api_response on tabular text: one mapping per data line that
\* is not of length zero, in order
parse_api_response(response_tsv) ==
    LET header == HeaderOf(response_tsv)
        data_lines == SelectSeq(Tail(response_tsv),
                                LAMBDA line : ~ZeroLength(line))
    IN  [none |-> FALSE,
         lines |-> [r \in DOMAIN data_lines |-> LineObj(header, data_lines[r])]]

\* a report as the vendor serves it: the columns SKU and Units, n data rows,
\* and a final newline
ReportText(n) ==
    << << <<"SKU">>, <<"Units">> >> >>
        \o [i \in 1..n |-> << <<"app">>, <<ToString(i)>> >>]
        \o << << <<>> >> >>

\* the reports the vendor serves
VendorReports == {ReportText(n) : n \in 0..MaxRows}

\* header lines and data lines of reports of any shape: a header of one or
\* two columns, two of whose names differ in case and separator only; data
\* lines of length zero, of blanks only, shorter than the header, as long,
\* and longer, with cells that are empty or padded with blanks
HeaderLines ==
    {<< <<"Units">> >>,
     << <<"SKU">>, <<"Units">> >>,
     << <<"Vendor", " ", "Number">>, <<"Units">> >>,
     << <<"Vendor", " ", "Number">>, <<"vendor", "-", "number">> >>}

DataLines ==
    {<< <<>> >>,
     << <<" ">> >>,
     << <<"7">> >>,
     << <<" ", "8", " ">>, <<>> >>,
     << <<"7">>, <<"8">>, <<"9">> >>}

\* the texts of up to n data lines
RECURSIVE TextsUpTo(_)
TextsUpTo(n) ==
    IF n = 0 THEN {<<h>> : h \in HeaderLines}
    ELSE TextsUpTo(n - 1)
         \cup {Append(t, l) : t \in {u \in TextsUpTo(n - 1) : Len(u) = n},
                              l \in DataLines}

\* reports of any shape, of up to MaxRows + 1 data lines
AnyReports == TextsUpTo(MaxRows + 1)

\* what the vendor call does for one window, for a vendor whose reports are
\* texts
ResponsesOf(texts) ==
    {[kind |-> "APIError", text |-> <<>>], [kind |-> "dict", text |-> <<>>]}
    \cup {[kind |-> "tsv", text |-> t] : t \in texts}

\* SalesReportStream / FinancialReportStream._attempt_download_report, for a
\* response that does not make parse_api_response raise
attempt_download_report(resp) ==
    IF resp.kind = "APIError" THEN NoneRep ELSE parse_api_response(resp.text)

\* ------------------------------------------------------------------ state
VARIABLES
    config,           \* the run's configuration: start_date, vendor
    catalog,          \* the catalog sync was called with
    reports,          \* which report texts the vendor may serve
    selected,         \* get_selected_streams(catalog), in catalog order
    state,            \* RunState: stream name -> 'start_date' bookmark, if any
    persisted,        \* the last state snapshot the sink received (the prior
                      \* state before the first flush): what a later run loads
    now,              \* the wall clock
    run,              \* number of the tap process
    attempt,          \* attempt number of the retried sync call
    pos,              \* position of sync's loop in selected
    pc,               \* control point of sync / query_report
    iterator,         \* query_report: start of the current window
    extraction_time,  \* query_report: now, read once at stream start
    rep,              \* query_report: what get_report returned
    index,            \* query_report: number of rows of rep already emitted
    resp_kind,        \* kind of the vendor's response for the current window
    response_tsv,     \* the text of that response, if it is a report
    exc,              \* the exception that left query_report, or None
    bookmark_read,    \* what singer.get_bookmark returned at stream start
    bookmark_writes,  \* this invocation's update_bookmark values, in order
    flushes,          \* this invocation's write_state snapshots, in order
    records,          \* this invocation's write_record records, in order
    fetches,          \* this invocation's get_report windows, in order
    committed,        \* per stream, the windows whose advance was flushed
    loaded,           \* the state this process was started with
    inflight,         \* the window the previous process was killed in, if any
    schemas,          \* per stream, the write_schema calls of this sync call
    driven,           \* the streams this attempt called query_report for
    failed            \* where the previous attempt of this sync call raised

vars == <<config, catalog, reports, selected, state, persisted, now, run, attempt, pos, pc,
          iterator, extraction_time, rep, index, resp_kind, response_tsv, exc,
          bookmark_read, bookmark_writes, flushes, records, fetches,
          committed, loaded, inflight, schemas, driven, failed>>

Bookmark(month, day, tod) == [month |-> month, day |-> day, tod |-> tod]

\* config['start_date'] of the runs explored
ConfigStartDates == {Bookmark(6, 29, 0), Bookmark(6, 30, TicksPerDay - 1)}

\* the prior state of the first run: the sales stream has no bookmark yet
\* (later processes start from the ones it flushed), the financial one has
\* none or a saved one, which may have been saved mid-month
PriorStates ==
    {[sales_report |-> a, financial_report |-> b] :
        a \in {NoBookmark},
        b \in {NoBookmark, Bookmark(5, 1, 0), Bookmark(5, 15, TicksPerDay - 1)}}

\* the instants the wall clock is read at
NowValues == {MakeDatetime(6, 30, TicksPerDay - 1), MakeDatetime(7, 1, 0),
              MakeDatetime(7, 2, 0)}

\* a metadata entry of a catalog stream; the stream's own entry has the
\* empty breadcrumb
MetadataEntry(breadcrumb, metadata) ==
    [breadcrumb |-> breadcrumb, metadata |-> metadata]

StreamSelected == MetadataEntry(<<>>, [selected |-> TRUE])
StreamDeselected == MetadataEntry(<<>>, [selected |-> FALSE])
StreamUnmarked == MetadataEntry(<<>>, [inclusion |-> "available"])
FieldSelected == MetadataEntry(<<"properties", "units">>, [selected |-> TRUE])

CatalogEntry(tap_stream_id, metadata) ==
    [tap_stream_id |-> tap_stream_id, metadata |-> metadata]

\* the catalogs explored: every stream has one stream-level metadata entry,
\* as the discovered catalog has; summary_sales_report is a stream of the
\* catalog that STREAMS does not register
Catalogs ==
    {<<CatalogEntry("sales_report", <<StreamSelected, FieldSelected>>),
       CatalogEntry("financial_report", <<StreamSelected>>)>>,
     <<CatalogEntry("financial_report", <<FieldSelected, StreamSelected>>),
       CatalogEntry("summary_sales_report", <<StreamSelected>>),
       CatalogEntry("sales_report", <<StreamSelected>>)>>,
     <<CatalogEntry("summary_sales_report", <<StreamDeselected, FieldSelected>>),
       CatalogEntry("sales_report", <<StreamSelected>>),
       CatalogEntry("financial_report", <<StreamUnmarked, FieldSelected>>)>>}

\* entry['metadata'].get('selected', None), as the if statement reads it
MetadataSelected(metadata) ==
    "selected" \in DOMAIN metadata /\ metadata.selected

\* get_selected_streams with a fault: a selected field selects its stream
RECURSIVE get_selected_streams_any(_)
get_selected_streams_any(streams) ==
    IF streams = <<>> THEN <<>>
    ELSE LET stream == Head(streams)
             hits == SelectSeq(stream.metadata,
                               LAMBDA entry : MetadataSelected(entry.metadata))
         IN  [i \in 1..Len(hits) |-> stream.tap_stream_id]
                 \o get_selected_streams_any(Tail(streams))

\* get_selected_streams: the streams are visited in catalog order and a
\* stream is appended for each of its entries that has an empty breadcrumb
\* and a true 'selected'; the model names a stream by its tap_stream_id
RECURSIVE get_selected_streams(_)
get_selected_streams(streams) ==
    IF streams = <<>> THEN <<>>
    ELSE LET stream == Head(streams)
             hits == SelectSeq(stream.metadata,
                               LAMBDA entry :
                                   /\ entry.breadcrumb = <<>>
                                   /\ MetadataSelected(entry.metadata))
         IN  [i \in 1..Len(hits) |-> stream.tap_stream_id]
                 \o get_selected_streams(Tail(streams))

\* no window was in flight
NoWindow == [stream |-> None, window |-> 0]

\* no attempt before this one raised inside a driver
NoFailure == [pos |-> 0, window |-> 0,
              state |-> [s \in {"sales_report", "financial_report"} |-> NoBookmark]]

NoLocals ==
    /\ iterator = 0
    /\ extraction_time = 0
    /\ rep = NoneRep
    /\ index = 0
    /\ resp_kind = None
    /\ response_tsv = <<>>
    /\ exc = None
    /\ bookmark_read = NoBookmark
    /\ bookmark_writes = <<>>
    /\ flushes = <<>>
    /\ records = <<>>
    /\ fetches = <<>>

Init ==
    /\ config \in {[start_date |-> d, vendor |-> <<"123">>] : d \in ConfigStartDates}
    /\ catalog \in Catalogs
    /\ reports = "documented"
    /\ selected = get_selected_streams(catalog)
    /\ state \in PriorStates
    /\ persisted = state
    /\ now \in {n \in NowValues : \E m \in NowValues : m > n}
    /\ run = 1
    /\ attempt = 1
    /\ pos = 1
    /\ pc = "sync"
    /\ NoLocals
    /\ committed = [s \in StreamNames |-> {}]
    /\ loaded = state
    /\ inflight = NoWindow
    /\ schemas = [i \in {catalog[k].tap_stream_id : k \in DOMAIN catalog} |-> 0]
    /\ driven = <<>>
    /\ failed = NoFailure

Active == selected[pos]

\* Eligible with a fault: the clock is read again for each window
EligibleNow == AddDelta(selected[pos], iterator) <= now

\* Eligible with a fault: a window that ends exactly at now is left out
EligibleStrict == AddDelta(selected[pos], iterator) < extraction_time

\* Eligible with a fault: a window is fetched as soon as it has begun
EligibleWithin == iterator <= extraction_time

\* while iterator + self.delta <= extraction_time
Eligible == AddDelta(Active, iterator) <= extraction_time

\* the keys of the four fields query_report adds to a row
LineIdKey == <<"_", "line", "_", "id">>
TimeExtractedKey == <<"_", "time", "_", "extracted">>
ApiReportDateKey == <<"_", "api", "_", "report", "_", "date">>
VendorNumberKey == <<"vendor", "_", "number">>

\* {'_line_id': ..., '_time_extracted': ..., '_api_report_date': ...,
\*  'vendor_number': ...}, for row number i of the current window
SyntheticFields(i) ==
    (LineIdKey :> i)
    @@ (TimeExtractedKey :> Strftime(extraction_time))
    @@ (ApiReportDateKey :> ReportDate(Active, iterator))
    @@ (VendorNumberKey :> config.vendor)

\* the report texts the vendor may serve in this behaviour
ReportsServed == IF reports = "any" THEN AnyReports ELSE VendorReports

\* the record write_record receives for row number i of the current window:
\* data = {the four added fields, **line}, where a key of line replaces an
\* added field of the same key
OutputRecord(i) ==
    [stream |-> Active, data |-> rep.lines[i] @@ SyntheticFields(i)]

\* ---------------------------------------------------------------- actions
\* QueryReportBegin with a fault: the bookmark is not written at stream start
QueryReportBeginNoWrite ==
    /\ pc = "sync"
    /\ pos <= Len(selected)
    /\ Active \in StreamNames
    /\ schemas' = [schemas EXCEPT ![Active] = @ + 1]
    /\ driven' = Append(driven, Active)
    /\ iterator' = get_bookmark(Active, state, config.start_date)
    /\ extraction_time' = now
    /\ bookmark_read' = singer_get_bookmark(state, Active, config.start_date)
    /\ bookmark_writes' = <<>>
    /\ flushes' = <<>>
    /\ records' = <<>>
    /\ fetches' = <<>>
    /\ rep' = NoneRep
    /\ index' = 0
    /\ resp_kind' = None
    /\ response_tsv' = <<>>
    /\ pc' = "window_ready"
    /\ UNCHANGED <<config, catalog, reports, selected, state, persisted, now, run, attempt, pos,
                   exc, committed, loaded, inflight, failed>>

\* QueryReportBegin with a fault: write_schema is left out
QueryReportBeginNoSchema ==
    /\ pc = "sync"
    /\ pos <= Len(selected)
    /\ Active \in StreamNames
    /\ schemas' = schemas
    /\ driven' = Append(driven, Active)
    /\ LET start == get_bookmark(Active, state, config.start_date) IN
        /\ iterator' = start
        /\ extraction_time' = now
        /\ state' = update_bookmark(state, Active, start)
        /\ bookmark_read' = singer_get_bookmark(state, Active, config.start_date)
        /\ bookmark_writes' = <<[stream |-> Active, value |-> Strftime(start)]>>
    /\ flushes' = <<>>
    /\ records' = <<>>
    /\ fetches' = <<>>
    /\ rep' = NoneRep
    /\ index' = 0
    /\ resp_kind' = None
    /\ response_tsv' = <<>>
    /\ pc' = "window_ready"
    /\ UNCHANGED <<config, catalog, reports, selected, persisted, now, run, attempt, pos, exc,
                   committed,
                   loaded, inflight, failed>>

\* sync's loop enters the next selected stream and query_report runs up to
\* its while loop: it reads the bookmark and now, and writes the bookmark
QueryReportBegin ==
    /\ pc = "sync"
    /\ pos <= Len(selected)
    /\ Active \in StreamNames
    /\ schemas' = [schemas EXCEPT ![Active] = @ + 1]
    /\ driven' = Append(driven, Active)
    /\ LET start == get_bookmark(Active, state, config.start_date) IN
        /\ iterator' = start
        /\ extraction_time' = now
        /\ state' = update_bookmark(state, Active, start)
        /\ bookmark_read' = singer_get_bookmark(state, Active, config.start_date)
        /\ bookmark_writes' = <<[stream |-> Active, value |-> Strftime(start)]>>
    /\ flushes' = <<>>
    /\ records' = <<>>
    /\ fetches' = <<>>
    /\ rep' = NoneRep
    /\ index' = 0
    /\ resp_kind' = None
    /\ response_tsv' = <<>>
    /\ pc' = "window_ready"
    /\ UNCHANGED <<config, catalog, reports, selected, persisted, now, run, attempt, pos, exc,
                   committed,
                   loaded, inflight, failed>>

\* sync's loop enters a selected stream that STREAMS has no entry for:
\* STREAMS[stream_name] raises KeyError, before write_schema
UnknownStream ==
    /\ pc = "sync"
    /\ pos <= Len(selected)
    /\ Active \notin StreamNames
    /\ pc' = "lookup_raised"
    /\ exc' = "KeyError"
    /\ UNCHANGED <<config, catalog, reports, selected, schemas, driven, state,
                   persisted, now, run, attempt, pos, iterator,
                   extraction_time, rep, index, resp_kind, response_tsv, bookmark_read,
                   bookmark_writes, flushes, records, fetches, committed,
                   loaded, inflight, failed>>

\* the window is eligible: get_report asks the vendor for it
GetReport ==
    /\ pc = "window_ready"
    /\ Eligible
    /\ \E resp \in ResponsesOf(ReportsServed) :
        /\ resp_kind' = resp.kind
        /\ response_tsv' = resp.text
        /\ IF resp.kind = "dict"
           THEN \* parse_api_response raises, no handler up to sync's caller
                /\ pc' = "raised"
                /\ exc' = "Exception"
                /\ rep' = NoneRep
           ELSE /\ pc' = "emitting"
                /\ exc' = None
                /\ rep' = attempt_download_report(resp)
        /\ fetches' = Append(fetches, [window |-> iterator,
                                       rows |-> Len(rep'.lines)])
    /\ index' = 0
    /\ UNCHANGED <<config, catalog, reports, selected, schemas,
                   driven, state, persisted, now, run, attempt, pos,
                   iterator, extraction_time, bookmark_read, bookmark_writes,
                   flushes, records, committed,
                   loaded, inflight, failed>>

\* for index, line in enumerate(rep, start=1), with rep = None
EnumerateNone ==
    /\ pc = "emitting"
    /\ rep = NoneRep
    /\ pc' = "raised"
    /\ exc' = "TypeError"
    /\ UNCHANGED <<config, catalog, reports, selected, schemas,
                   driven, state, persisted, now, run, attempt, pos,
                   iterator, extraction_time, rep, index, resp_kind, response_tsv,
                   bookmark_read, bookmark_writes, flushes, records, fetches,
                   committed,
                   loaded, inflight, failed>>

\* one iteration of the for loop: the next row is enriched and written
WriteRecord ==
    /\ pc = "emitting"
    /\ rep # NoneRep
    /\ index < Len(rep.lines)
    /\ index' = index + 1
    /\ records' = Append(records, OutputRecord(index + 1))
    /\ UNCHANGED <<config, catalog, reports, selected, schemas,
                   driven, state, persisted, now, run, attempt, pos,
                   pc, iterator, extraction_time, rep, resp_kind, response_tsv, exc,
                   bookmark_read, bookmark_writes, flushes, fetches,
                   committed,
                   loaded, inflight, failed>>

\* transformer.transform rejects the next row
TransformRaises ==
    /\ pc = "emitting"
    /\ rep # NoneRep
    /\ index < Len(rep.lines)
    /\ pc' = "raised"
    /\ exc' = "SchemaMismatch"
    /\ UNCHANGED <<config, catalog, reports, selected, schemas,
                   driven, state, persisted, now, run, attempt, pos,
                   iterator, extraction_time, rep, index, resp_kind, response_tsv,
                   bookmark_read, bookmark_writes, flushes, records, fetches,
                   committed,
                   loaded, inflight, failed>>

\* AdvanceBookmark with a fault: the state is flushed before the bookmark
\* is advanced
AdvanceBookmarkFlushFirst ==
    /\ pc = "emitting"
    /\ rep # NoneRep
    /\ index = Len(rep.lines)
    /\ persisted' = state
    /\ flushes' = Append(flushes, state)
    /\ state' = update_bookmark(state, Active, AddDelta(Active, iterator))
    /\ bookmark_writes' =
           Append(bookmark_writes,
                  [stream |-> Active,
                   value |-> Strftime(AddDelta(Active, iterator))])
    /\ committed' = [committed EXCEPT ![Active] = @ \cup {iterator}]
    /\ iterator' = AddDelta(Active, iterator)
    /\ pc' = "window_ready"
    /\ UNCHANGED <<config, catalog, reports, selected, schemas,
                   driven, now, run, attempt, pos, extraction_time,
                   rep, index, resp_kind, response_tsv, exc, bookmark_read, records,
                   fetches, loaded, inflight, failed>>

\* AdvanceBookmark with a fault: the iterator is not moved to the next window
AdvanceBookmarkSameWindow ==
    /\ pc = "emitting"
    /\ rep # NoneRep
    /\ index = Len(rep.lines)
    /\ state' = update_bookmark(state, Active, AddDelta(Active, iterator))
    /\ bookmark_writes' =
           Append(bookmark_writes,
                  [stream |-> Active,
                   value |-> Strftime(AddDelta(Active, iterator))])
    /\ persisted' = state'
    /\ flushes' = Append(flushes, state')
    /\ committed' = [committed EXCEPT ![Active] = @ \cup {iterator}]
    /\ pc' = "window_ready"
    /\ UNCHANGED <<config, catalog, reports, selected, schemas,
                   driven, now, run, attempt, pos, iterator,
                   extraction_time, rep, index, resp_kind, response_tsv, exc, bookmark_read,
                   records, fetches, loaded, inflight, failed>>

\* AdvanceBookmark with a fault: the state is flushed at stream end only
AdvanceBookmarkNoFlush ==
    /\ pc = "emitting"
    /\ rep # NoneRep
    /\ index = Len(rep.lines)
    /\ state' = update_bookmark(state, Active, AddDelta(Active, iterator))
    /\ bookmark_writes' =
           Append(bookmark_writes,
                  [stream |-> Active,
                   value |-> Strftime(AddDelta(Active, iterator))])
    /\ committed' = [committed EXCEPT ![Active] = @ \cup {iterator}]
    /\ iterator' = AddDelta(Active, iterator)
    /\ pc' = "window_ready"
    /\ UNCHANGED <<config, catalog, reports, selected, schemas,
                   driven, persisted, now, run, attempt, pos,
                   extraction_time, rep, index, resp_kind, response_tsv, exc, bookmark_read,
                   flushes, records, fetches,
                   loaded, inflight, failed>>

\* the for loop is over: update_bookmark(iterator + delta), write_state,
\* iterator += delta
AdvanceBookmark ==
    /\ pc = "emitting"
    /\ rep # NoneRep
    /\ index = Len(rep.lines)
    /\ state' = update_bookmark(state, Active, AddDelta(Active, iterator))
    /\ bookmark_writes' =
           Append(bookmark_writes,
                  [stream |-> Active,
                   value |-> Strftime(AddDelta(Active, iterator))])
    /\ persisted' = state'
    /\ flushes' = Append(flushes, state')
    /\ committed' = [committed EXCEPT ![Active] = @ \cup {iterator}]
    /\ iterator' = AddDelta(Active, iterator)
    /\ pc' = "window_ready"
    /\ UNCHANGED <<config, catalog, reports, selected, schemas,
                   driven, now, run, attempt, pos, extraction_time,
                   rep, index, resp_kind, response_tsv, exc, bookmark_read, records,
                   fetches,
                   loaded, inflight>>
    /\ failed' = IF failed.pos = pos THEN NoFailure ELSE failed

\* QueryReportEnd with a fault: no state is written after the loop
QueryReportEndNoFlush ==
    /\ pc = "window_ready"
    /\ ~Eligible
    /\ pos' = pos + 1
    /\ pc' = "sync"
    /\ UNCHANGED <<config, catalog, reports, selected, schemas,
                   driven, state, persisted, now, run, attempt,
                   iterator, extraction_time, rep, index, resp_kind, response_tsv, exc,
                   bookmark_read, bookmark_writes, flushes, records, fetches,
                   committed, loaded, inflight, failed>>

\* no window is eligible: the while loop ends, the state is written once
\* more and sync's loop moves on
QueryReportEnd ==
    /\ pc = "window_ready"
    /\ ~Eligible
    /\ persisted' = state
    /\ flushes' = Append(flushes, state)
    /\ pos' = pos + 1
    /\ pc' = "sync"
    /\ UNCHANGED <<config, catalog, reports, selected, schemas,
                   driven, state, now, run, attempt, iterator,
                   extraction_time, rep, index, resp_kind, response_tsv, exc, bookmark_read,
                   bookmark_writes, records, fetches, committed,
                   loaded, inflight>>
    /\ failed' = IF failed.pos = pos THEN NoFailure ELSE failed

\* sync's loop is exhausted: sync returns
SyncReturn ==
    /\ pc = "sync"
    /\ pos > Len(selected)
    /\ pc' = "sync_done"
    /\ UNCHANGED <<config, catalog, reports, selected, schemas,
                   driven, state, persisted, now, run, attempt, pos,
                   iterator, extraction_time, rep, index, resp_kind, response_tsv, exc,
                   bookmark_read, bookmark_writes, flushes, records, fetches,
                   committed,
                   loaded, inflight, failed>>

\* Retry with a fault: the decorator has no stop condition
RetryUnbounded ==
    /\ pc \in {"raised", "lookup_raised"}
    /\ IF attempt < MaxAttempts
       THEN /\ attempt' = attempt + 1
            /\ pos' = 1
            /\ pc' = "sync"
            /\ exc' = None
            /\ driven' = <<>>
       ELSE /\ attempt' = attempt
            /\ pos' = 1
            /\ pc' = "sync"
            /\ exc' = None
            /\ driven' = <<>>
    /\ iterator' = 0
    /\ extraction_time' = 0
    /\ rep' = NoneRep
    /\ index' = 0
    /\ resp_kind' = None
    /\ response_tsv' = <<>>
    /\ bookmark_read' = NoBookmark
    /\ bookmark_writes' = <<>>
    /\ flushes' = <<>>
    /\ records' = <<>>
    /\ fetches' = <<>>
    /\ UNCHANGED <<config, catalog, reports, selected, schemas, state, persisted, now,
                   run, committed, loaded, inflight>>
    /\ failed' = IF pc = "raised"
                 THEN [pos |-> pos, window |-> iterator, state |-> state]
                 ELSE NoFailure

\* Retry with a fault: every attempt starts from the state the process was
\* started with
RetryFreshState ==
    /\ pc \in {"raised", "lookup_raised"}
    /\ IF attempt < MaxAttempts
       THEN /\ attempt' = attempt + 1
            /\ pos' = 1
            /\ pc' = "sync"
            /\ exc' = None
            /\ driven' = <<>>
       ELSE /\ pc' = "sync_failed"
            /\ UNCHANGED <<attempt, pos, exc, driven>>
    /\ iterator' = 0
    /\ extraction_time' = 0
    /\ rep' = NoneRep
    /\ index' = 0
    /\ resp_kind' = None
    /\ response_tsv' = <<>>
    /\ bookmark_read' = NoBookmark
    /\ bookmark_writes' = <<>>
    /\ flushes' = <<>>
    /\ records' = <<>>
    /\ fetches' = <<>>
    /\ UNCHANGED <<config, catalog, reports, selected, schemas, persisted, now,
                   run, committed, loaded, inflight>>
    /\ state' = loaded
    /\ failed' = IF pc = "raised"
                 THEN [pos |-> pos, window |-> iterator, state |-> state]
                 ELSE NoFailure

\* @retry(stop=stop_after_attempt(5), wait=wait_fixed(1)): an exception that
\* left sync starts the next attempt with the same arguments, or is final
Retry ==
    /\ pc \in {"raised", "lookup_raised"}
    /\ IF attempt < MaxAttempts
       THEN /\ attempt' = attempt + 1
            /\ pos' = 1
            /\ pc' = "sync"
            /\ exc' = None
            /\ driven' = <<>>
       ELSE /\ pc' = "sync_failed"
            /\ UNCHANGED <<attempt, pos, exc, driven>>
    /\ iterator' = 0
    /\ extraction_time' = 0
    /\ rep' = NoneRep
    /\ index' = 0
    /\ resp_kind' = None
    /\ response_tsv' = <<>>
    /\ bookmark_read' = NoBookmark
    /\ bookmark_writes' = <<>>
    /\ flushes' = <<>>
    /\ records' = <<>>
    /\ fetches' = <<>>
    /\ UNCHANGED <<config, catalog, reports, selected, schemas, state, persisted, now,
                   run, committed, loaded, inflight>>
    /\ failed' = IF pc = "raised"
                 THEN [pos |-> pos, window |-> iterator, state |-> state]
                 ELSE NoFailure

\* the process ends wherever it is (killed, or finished) and the tap is
\* started again with the state the sink received last
Restart ==
    /\ run < MaxRuns
    /\ run' = run + 1
    /\ state' = persisted
    /\ attempt' = 1
    /\ pos' = 1
    /\ pc' = "sync"
    /\ iterator' = 0
    /\ extraction_time' = 0
    /\ rep' = NoneRep
    /\ index' = 0
    /\ resp_kind' = None
    /\ response_tsv' = <<>>
    /\ exc' = None
    /\ bookmark_read' = NoBookmark
    /\ bookmark_writes' = <<>>
    /\ flushes' = <<>>
    /\ records' = <<>>
    /\ fetches' = <<>>
    /\ loaded' = persisted
    /\ inflight' = IF pc = "emitting"
                   THEN [stream |-> Active, window |-> iterator]
                   ELSE NoWindow
    /\ schemas' = [s \in DOMAIN schemas |-> 0]
    /\ driven' = <<>>
    /\ failed' = NoFailure
    /\ UNCHANGED <<config, catalog, reports, selected, persisted, now, committed>>

\* time passes
Tick ==
    /\ \E n \in NowValues : n > now /\ now' = n
    /\ UNCHANGED <<config, catalog, reports, selected, schemas,
                   driven, state, persisted, run, attempt, pos, pc,
                   iterator, extraction_time, rep, index, resp_kind, response_tsv, exc,
                   bookmark_read, bookmark_writes, flushes, records, fetches,
                   committed,
                   loaded, inflight, failed>>

Next ==
    \/ QueryReportBegin
    \/ UnknownStream
    \/ GetReport
    \/ EnumerateNone
    \/ WriteRecord
    \/ TransformRaises
    \/ AdvanceBookmark
    \/ QueryReportEnd
    \/ SyncReturn
    \/ Retry
    \/ Restart
    \/ Tick

Spec == Init /\ [][Next]_vars

\* one driver, from sync's call of it to its return
DriverNext ==
    \/ QueryReportBegin
    \/ GetReport
    \/ WriteRecord
    \/ AdvanceBookmark
    \/ QueryReportEnd
    \/ SyncReturn

\* sync is called for the sales stream alone, one window is eligible, and the
\* vendor may serve a report of any shape
ReportInit ==
    /\ config = [start_date |-> Bookmark(6, 29, 0), vendor |-> <<"123">>]
    /\ catalog \in {c \in Catalogs :
                        get_selected_streams(c) = <<"sales_report">>}
    /\ reports = "any"
    /\ selected = get_selected_streams(catalog)
    /\ state = [s \in StreamNames |-> NoBookmark]
    /\ persisted = state
    /\ now = MakeDatetime(6, 30, TicksPerDay - 1)
    /\ run = 1
    /\ attempt = 1
    /\ pos = 1
    /\ pc = "sync"
    /\ NoLocals
    /\ committed = [s \in StreamNames |-> {}]
    /\ loaded = state
    /\ inflight = NoWindow
    /\ schemas = [i \in {catalog[k].tap_stream_id : k \in DOMAIN catalog} |-> 0]
    /\ driven = <<>>
    /\ failed = NoFailure

ReportSpec == ReportInit /\ [][DriverNext]_vars

\* the steps of the tap process itself
SyncStep ==
    \/ QueryReportBegin
    \/ UnknownStream
    \/ GetReport
    \/ EnumerateNone
    \/ WriteRecord
    \/ TransformRaises
    \/ AdvanceBookmark
    \/ QueryReportEnd
    \/ SyncReturn
    \/ Retry

\* one sync call, from its start to its end, while the clock advances
SyncNext ==
    \/ SyncStep
    \/ Tick

\* one sync call of a process that keeps executing: sync is straight
\* sequential code whose only waiting is the vendor call and wait_fixed(1),
\* both of which return; nothing is assumed about the clock
SyncSpec == Init /\ [][SyncNext]_vars /\ WF_vars(SyncStep)

\* the bookmarks a driver may find in the state: none, one before now with
\* or without a time of day, and one after every now
DriverCheckpoints ==
    {[sales_report |-> a, financial_report |-> b] :
        a \in {NoBookmark, Bookmark(6, 29, TicksPerDay - 1), Bookmark(6, 30, 0),
               Bookmark(7, 15, 0)},
        b \in {NoBookmark, Bookmark(5, 15, TicksPerDay - 1), Bookmark(7, 1, 0),
               Bookmark(7, 15, 0)}}

\* one attempt of sync over registered streams, with any bookmark and any
\* now, the clock standing still
DriverInit ==
    /\ config \in {[start_date |-> d, vendor |-> <<"123">>] : d \in ConfigStartDates}
    /\ catalog \in {c \in Catalogs :
                        \A i \in DOMAIN get_selected_streams(c) :
                            get_selected_streams(c)[i] \in StreamNames}
    /\ reports = "documented"
    /\ selected = get_selected_streams(catalog)
    /\ state \in DriverCheckpoints
    /\ persisted = state
    /\ now \in NowValues
    /\ run = 1
    /\ attempt = 1
    /\ pos = 1
    /\ pc = "sync"
    /\ NoLocals
    /\ committed = [s \in StreamNames |-> {}]
    /\ loaded = state
    /\ inflight = NoWindow
    /\ schemas = [i \in {catalog[k].tap_stream_id : k \in DOMAIN catalog} |-> 0]
    /\ driven = <<>>
    /\ failed = NoFailure

\* the steps of one attempt, up to its return or to the exception that
\* leaves it
AttemptNext ==
    \/ QueryReportBegin
    \/ GetReport
    \/ EnumerateNone
    \/ WriteRecord
    \/ TransformRaises
    \/ AdvanceBookmark
    \/ QueryReportEnd
    \/ SyncReturn

\* query_report is sequential code whose only waiting is the vendor call,
\* which returns: a driver that can take a step takes one
DriverSpec == DriverInit /\ [][AttemptNext]_vars /\ WF_vars(AttemptNext)

TypeOK ==
    /\ pc \in {"sync", "window_ready", "emitting", "raised", "lookup_raised",
               "sync_done", "sync_failed"}
    /\ attempt \in 1..MaxAttempts
    /\ run \in 1..MaxRuns
    /\ now \in NowValues

\* ------------------------------------------------------------- properties
Financial(s) == STREAMS[s] = "FinancialReportStream"

\* query_report has returned to sync's loop: its stream, and what it did
DriverReturned == pc \in {"sync", "sync_done"} /\ pos > 1
Finished == selected[pos - 1]

\* query_report is between its first and its last statement
InDriver == pc \in {"window_ready", "emitting", "raised"}

\* the checkpoint the stream started from, as the driver reads it
StartCheckpoint(s) ==
    IF Financial(s) THEN ReplaceFirstOfMonth(Strptime(bookmark_read))
    ELSE Strptime(bookmark_read)

\* the window of the last get_report
LastFetch == fetches[Len(fetches)]

\* records of this invocation that belong to the window starting at w
RecordsOf(s, w) ==
    SelectSeq(records, LAMBDA r : r.data[ApiReportDateKey] = ReportDate(s, w))

\* C1: a window whose vendor call raised an APIError is skipped: no record of
\* it is emitted, no exception leaves the driver, and once the driver has
\* left the window the checkpoint is the window's end boundary.
C1_FetchFailureSkip ==
    (InDriver /\ resp_kind = "APIError") =>
        /\ pc # "raised"
        /\ RecordsOf(Active, LastFetch.window) = <<>>
        /\ pc = "window_ready" =>
               /\ iterator = AddDelta(Active, LastFetch.window)
               /\ state[Active] = Strftime(iterator)

\* C2: a window for which the vendor returned a structured error object is
\* treated like an empty window: no exception leaves the driver, no record of
\* it is emitted, and the checkpoint advances past it.
C2_MalformedResponseSkip ==
    (InDriver /\ resp_kind = "dict") =>
        /\ exc = None
        /\ RecordsOf(Active, LastFetch.window) = <<>>
        /\ pc = "window_ready" =>
               state[Active] = Strftime(AddDelta(Active, LastFetch.window))

\* C3 (as amended): while a window W is fetched and emitted, the checkpoint
\* in RunState is W's start, and the checkpoint a resumed run reads from the
\* last flushed snapshot (the configured start date when the stream has no
\* entry, the first of the month for the monthly stream) is W's start; a
\* process started after one that was killed inside W finds W eligible and
\* fetches it first.
C3_AtLeastOnce ==
    /\ pc = "emitting" =>
           /\ state[Active] = Strftime(iterator)
           /\ get_bookmark(Active, persisted, config.start_date) = iterator
    /\ (InDriver /\ attempt = 1 /\ inflight.stream = Active) =>
           /\ (pc = "window_ready" /\ fetches = <<>>) =>
                  (iterator = inflight.window /\ Eligible)
           /\ fetches # <<>> => fetches[1].window = inflight.window

\* C3 as stated: the checkpoint in RunState and the one in the last flushed
\* snapshot are both W's start while W is fetched and emitted.
C3_CheckpointIsWindowStart ==
    pc = "emitting" =>
        /\ state[Active] = Strftime(iterator)
        /\ persisted[Active] # NoBookmark =>
               persisted[Active] = Strftime(iterator)

\* a process killed between two rows of W, whose last flushed checkpoint is
\* not W's start
C3_Witness ==
    /\ pc = "emitting"
    /\ inflight.stream = Active
    /\ inflight.window = iterator
    /\ attempt = 1
    /\ index >= 1
    /\ index < Len(rep.lines)
    /\ persisted[Active] # Strftime(iterator)

\* C4: the flushed checkpoint of a stream is at least the end boundary of
\* each of its fully processed windows; no window whose advance was flushed
\* is fetched again, in this process or a later one; a process started from
\* a flushed checkpoint begins fetching exactly there.
C4_Resumability ==
    /\ \A s \in StreamNames : \A w \in committed[s] :
           /\ persisted[s] # NoBookmark
           /\ Strptime(persisted[s]) >= AddDelta(s, w)
    /\ (pc \in {"emitting", "raised"}) =>
           (LastFetch.window = iterator /\ iterator \notin committed[Active])
    /\ (InDriver /\ run > 1 /\ attempt = 1 /\ fetches # <<>>
          /\ \E w \in committed[Active] :
                 loaded[Active] = Strftime(AddDelta(Active, w))) =>
           fetches[1].window = Strptime(loaded[Active])

\* a later process, started after a window of the stream was committed and
\* the next one was in flight, is emitting the stream's first fetch
C4_Witness ==
    /\ run > 1
    /\ attempt = 1
    /\ pc = "emitting"
    /\ Len(fetches) = 1
    /\ inflight.stream = Active
    /\ \E w \in committed[Active] : AddDelta(Active, w) = iterator

\* the driver was invoked with no eligible window
NoWindowEligible(s) == AddDelta(s, StartCheckpoint(s)) > extraction_time

\* C5 (as amended): a driver invoked when checkpoint + delta > now fetches
\* nothing and emits nothing; it writes the checkpoint it read (normalised)
\* into RunState once and flushes one state snapshot carrying it.
C5_NoEligibleWindow ==
    (DriverReturned /\ NoWindowEligible(Finished)) =>
        /\ fetches = <<>>
        /\ records = <<>>
        /\ bookmark_writes =
               <<[stream |-> Finished,
                  value |-> Strftime(StartCheckpoint(Finished))]>>
        /\ Len(flushes) = 1
        /\ flushes[1][Finished] = Strftime(StartCheckpoint(Finished))

\* C5 as stated: no fetch, no record, no bookmark write and no state flush.
C5_ZeroStateWrites ==
    (DriverReturned /\ NoWindowEligible(Finished)) =>
        /\ fetches = <<>>
        /\ records = <<>>
        /\ bookmark_writes = <<>>
        /\ flushes = <<>>

C5_Witness ==
    /\ DriverReturned
    /\ NoWindowEligible(Finished)
    /\ Len(flushes) = 1

\* b is a plus one granularity step, read off the formatted fields
OneDeltaApart(s, a, b) ==
    IF Financial(s)
    THEN b.month = a.month + 1 /\ b.day = a.day /\ b.tod = a.tod
    ELSE /\ b.tod = a.tod
         /\ \/ b.month = a.month /\ b.day = a.day + 1
            \/ /\ a.day = MonthDays[a.month]
               /\ b.month = a.month + 1
               /\ b.day = 1

NotLowered(st1, st2) ==
    \A s \in StreamNames :
        (st1[s] # NoBookmark /\ st2[s] # NoBookmark) =>
            \/ Strptime(st2[s]) >= Strptime(st1[s])
            \/ /\ Financial(s)
               /\ st2[s] = Strftime(ReplaceFirstOfMonth(Strptime(st1[s])))

\* C7 (as amended): no step lowers a stream's checkpoint, in RunState or in
\* the flushed state, across attempts and processes, except that the
\* initial write of the financial stream lowers a checkpoint that is not on
\* the first of the month to the first instant of its month.
C7_NonDecreasing ==
    [][NotLowered(state, state') /\ NotLowered(persisted, persisted')]_vars

\* C7 as stated: no write sets the checkpoint in RunState to an earlier value.
C7_NeverDecreases ==
    [][\A s \in StreamNames :
          (state[s] # NoBookmark /\ state'[s] # NoBookmark) =>
              Strptime(state'[s]) >= Strptime(state[s])]_vars

\* the financial driver has lowered a mid-month checkpoint and flushed it
C7_Witness ==
    /\ DriverReturned
    /\ Financial(Finished)
    /\ Strptime(bookmark_read) > Strptime(bookmark_writes[1].value)
    /\ persisted[Finished] = flushes[Len(flushes)][Finished]
    /\ Strptime(persisted[Finished]) > Strptime(bookmark_read)

\* C8 (as amended): every checkpoint the financial driver writes is a first
\* of the month at midnight; every checkpoint a sales driver writes carries
\* the time of day of the checkpoint it started from, so it is a day
\* boundary exactly when that one was.
C8_Alignment ==
    \A i \in 1..Len(bookmark_writes) :
        IF Financial(bookmark_writes[i].stream)
        THEN bookmark_writes[i].value.day = 1
             /\ bookmark_writes[i].value.tod = 0
        ELSE bookmark_writes[i].value.tod = bookmark_read.tod

\* C8 as stated: every written checkpoint is a first of the month at midnight
\* (financial) or a midnight (sales).
C8_AlwaysAligned ==
    \A i \in 1..Len(bookmark_writes) :
        /\ bookmark_writes[i].value.tod = 0
        /\ Financial(bookmark_writes[i].stream) =>
               bookmark_writes[i].value.day = 1

\* a financial driver that started from a mid-month checkpoint has advanced
C8_Witness ==
    /\ Len(bookmark_writes) >= 2
    /\ Financial(bookmark_writes[1].stream)
    /\ bookmark_read.day # 1
    /\ bookmark_read.tod # 0

\* the checkpoints of stream s carried by the flushed snapshots, in order
FlushedCheckpoints(s) == [i \in 1..Len(flushes) |-> flushes[i][s]]

\* the end-to-end scenario: monthly stream, bookmark 2023-05-01, now
\* 2023-07-01, 2 rows for 2023-05 and 1 row for 2023-06
Scenario ==
    /\ DriverReturned
    /\ Financial(Finished)
    /\ bookmark_read = Bookmark(5, 1, 0)
    /\ extraction_time = MakeDatetime(7, 1, 0)
    /\ fetches = <<[window |-> MakeDatetime(5, 1, 0), rows |-> 2],
                   [window |-> MakeDatetime(6, 1, 0), rows |-> 1]>>

\* C9 (as amended): in the scenario the driver emits 3 records and flushes
\* the state 3 times, the snapshots carrying 2023-06-01, 2023-07-01,
\* 2023-07-01; in general a driver that processed k windows from B flushes
\* k + 1 snapshots, the i-th carrying B + i*delta and the last repeating the
\* final checkpoint B + k*delta.
C9_StateFlushes ==
    /\ Scenario =>
           /\ Len(records) = 3
           /\ FlushedCheckpoints(Finished) =
                  <<Bookmark(6, 1, 0), Bookmark(7, 1, 0), Bookmark(7, 1, 0)>>
    /\ DriverReturned =>
           /\ Len(flushes) = Len(fetches) + 1
           /\ \A i \in 1..Len(fetches) :
                  flushes[i][Finished] =
                      Strftime(AddDelta(Finished, fetches[i].window))
           /\ flushes[Len(flushes)][Finished] =
                  bookmark_writes[Len(bookmark_writes)].value
           /\ fetches # <<>> => fetches[1].window = StartCheckpoint(Finished)

\* C9 as stated: 3 records and 3 flushes carrying 2023-05-01, 2023-06-01,
\* 2023-07-01.
C9_FlushesCarryWindowStarts ==
    Scenario =>
        /\ Len(records) = 3
        /\ FlushedCheckpoints(Finished) =
               <<Bookmark(5, 1, 0), Bookmark(6, 1, 0), Bookmark(7, 1, 0)>>

C9_Witness == Scenario /\ Len(flushes) = 3

RECURSIVE AddDeltas(_, _, _)
\* t plus n granularity steps
AddDeltas(s, t, n) == IF n = 0 THEN t ELSE AddDeltas(s, AddDelta(s, t), n - 1)

RECURSIVE SumRows(_)
SumRows(f) == IF f = <<>> THEN 0 ELSE f[1].rows + SumRows(Tail(f))

\* C10: a returned driver that started from B with now N made exactly k
\* fetches, for the windows B, B + delta, ..., where k is the number of
\* windows that end by N; it wrote the bookmark k + 1 times, B .. B + k*delta;
\* it emitted one record per fetched row, numbered from 1 in each window; and
\* no fetch, at any time, is for a window that ends after N.
C10_DriverTrace ==
    /\ \A i \in 1..Len(fetches) :
           AddDelta(bookmark_writes[1].stream, fetches[i].window)
               <= extraction_time
    /\ DriverReturned =>
        LET s == Finished
            B == StartCheckpoint(s)
            k == Len(fetches)
        IN  /\ AddDeltas(s, B, k) <= extraction_time
            /\ AddDeltas(s, B, k + 1) > extraction_time
            /\ \A i \in 1..k : fetches[i].window = AddDeltas(s, B, i - 1)
            /\ Len(bookmark_writes) = k + 1
            /\ \A i \in 1..(k + 1) :
                   bookmark_writes[i] =
                       [stream |-> s, value |-> Strftime(AddDeltas(s, B, i - 1))]
            /\ Len(records) = SumRows(fetches)
            /\ \A i \in 1..k :
                   LET r == RecordsOf(s, fetches[i].window) IN
                   /\ Len(r) = fetches[i].rows
                   /\ \A j \in 1..Len(r) :
                          /\ r[j].data[LineIdKey] = j
                          /\ r[j].data[<<"units">>] = <<ToString(j)>>

\* a driver returned after two windows with rows, the second ending at now
C10_Witness ==
    /\ DriverReturned
    /\ Len(fetches) = 2
    /\ fetches[1].rows = 2
    /\ fetches[2].rows >= 1
    /\ iterator = extraction_time

\* C11: now is read once, when the driver starts, and stays the driver's
\* extraction instant for all its windows; every fetch is for a window that
\* ends at or before that instant, hence at or before now.
C11_Eligibility ==
    [][/\ (pc = "sync" /\ pc' = "window_ready") => extraction_time' = now
       /\ (InDriver /\ pc' \in {"window_ready", "emitting", "raised"}) =>
              extraction_time' = extraction_time
       /\ Len(fetches') > Len(fetches) =>
              /\ fetches'[Len(fetches')].window = iterator
              /\ AddDelta(Active, iterator) <= extraction_time
              /\ AddDelta(Active, iterator) <= now]_vars

\* the clock has passed the end of the next window while the driver was
\* running, and the driver, having fetched, finds that window not eligible
C11_Witness ==
    /\ pc = "window_ready"
    /\ fetches # <<>>
    /\ ~Eligible
    /\ AddDelta(Active, iterator) <= now

\* C12: the windows of one driver invocation are fetched in ascending order,
\* each exactly one granularity step after the one before (none twice, none
\* skipped), and when a window is fetched every earlier window has had all
\* its rows emitted and its checkpoint advanced.
C12_WindowOrdering ==
    LET s == bookmark_writes[1].stream
        Complete(i) ==
            /\ Len(RecordsOf(s, fetches[i].window)) = fetches[i].rows
            /\ Len(bookmark_writes) > i
            /\ bookmark_writes[i + 1].value =
                   Strftime(AddDelta(s, fetches[i].window))
    IN  /\ \A i \in 1..(Len(fetches) - 1) :
               /\ fetches[i + 1].window > fetches[i].window
               /\ OneDeltaApart(s, Strftime(fetches[i].window),
                                Strftime(fetches[i + 1].window))
               /\ Complete(i)
        /\ \A i, j \in 1..Len(fetches) :
               fetches[i].window = fetches[j].window => i = j
        /\ pc = "window_ready" => \A i \in 1..Len(fetches) : Complete(i)

\* a driver is emitting its third window, the earlier ones had rows
C12_Witness ==
    /\ pc = "emitting"
    /\ Len(fetches) = 3
    /\ fetches[1].rows >= 1
    /\ fetches[2].rows >= 1

\* C13: the financial driver starts from the first instant of the month of
\* the checkpoint it read, whatever its day and time of day (2023-05-15
\* gives 2023-05-01), and its first window is that month; a sales driver
\* starts from the checkpoint it read, unchanged.
C13_MonthlyAlignment ==
    bookmark_writes # <<>> =>
        LET s == bookmark_writes[1].stream
            start == IF Financial(s)
                     THEN Bookmark(bookmark_read.month, 1, 0)
                     ELSE bookmark_read
        IN  /\ bookmark_writes[1].value = start
            /\ fetches # <<>> =>
                   /\ fetches[1].window = Strptime(start)
                   /\ Financial(s) =>
                          ReportDate(s, fetches[1].window) =
                              [month |-> bookmark_read.month]

\* the financial driver read 2023-05-15 and fetched the window 2023-05-01
C13_Witness ==
    /\ bookmark_writes # <<>>
    /\ Financial(bookmark_writes[1].stream)
    /\ bookmark_read = Bookmark(5, 15, TicksPerDay - 1)
    /\ fetches # <<>>
    /\ fetches[1].window = MakeDatetime(5, 1, 0)

\* the catalog stream has a stream-level entry with selected = true
StreamLevelSelected(stream) ==
    \E i \in DOMAIN stream.metadata : stream.metadata[i] = StreamSelected

\* the tap_stream_ids of a sequence of catalog streams
StreamIds(streams) == [i \in DOMAIN streams |-> streams[i].tap_stream_id]

Range(f) == {f[i] : i \in DOMAIN f}

\* C14 as stated: once the registry lookup of a selected stream has failed,
\* the only thing sync does is fail: the call is not attempted again.
C14_UnknownStreamFatal ==
    [][(pc = "lookup_raised" /\ pc' # pc /\ run' = run) =>
           pc' = "sync_failed"]_vars

\* C15 (as amended): in each attempt of sync one schema declaration is
\* emitted for each stream the attempt enters, once, before the stream's
\* driver starts and so before its first record; over the whole sync call a
\* stream's schema is emitted once per attempt that reaches it, the first
\* driven stream's once per attempt.
C15_SchemaPerAttempt ==
    /\ \A i, j \in DOMAIN driven : driven[i] = driven[j] => i = j
    /\ \A s \in DOMAIN schemas :
           /\ schemas[s] <= attempt
           /\ s \in Range(driven) => schemas[s] >= 1
    /\ driven # <<>> => schemas[driven[1]] = attempt
    /\ InDriver => driven # <<>> /\ driven[Len(driven)] = Active
    /\ records # <<>> => records[1].stream \in Range(driven)

\* C15 as stated: over the whole sync call, retry attempts included, no
\* stream's schema is declared more than once.
C15_SchemaOncePerCall == \A s \in DOMAIN schemas : schemas[s] <= 1

\* the second attempt emits records of a stream whose schema it declared
\* again
C15_Witness ==
    /\ attempt = 2
    /\ pc = "emitting"
    /\ records # <<>>
    /\ schemas[Active] = 2

\* C17: the streams an attempt of sync has driven are, in catalog order and
\* without repetition, the first ones of the catalog streams whose
\* stream-level entry has selected = true, and all of them when sync returns;
\* a stream selected only at field level, or with selected false or absent at
\* stream level, is never driven.
C17_Selection ==
    LET want == StreamIds(SelectSeq(catalog, StreamLevelSelected))
    IN  /\ Len(driven) <= Len(want)
        /\ \A i \in DOMAIN driven : driven[i] = want[i]
        /\ \A i, j \in DOMAIN driven : driven[i] = driven[j] => i = j
        /\ pc = "sync_done" => driven = want
        /\ \A k \in DOMAIN catalog :
               ~StreamLevelSelected(catalog[k]) =>
                   catalog[k].tap_stream_id \notin Range(driven)

\* sync returned for a catalog with a stream selected at field level only
\* and a stream deselected at stream level: it drove the third stream only
C17_Witness ==
    /\ pc = "sync_done"
    /\ driven = <<"sales_report">>
    /\ \E k \in DOMAIN catalog :
           catalog[k].metadata = <<StreamUnmarked, FieldSelected>>
    /\ \E k \in DOMAIN catalog :
           catalog[k].metadata = <<StreamDeselected, FieldSelected>>

\* sync has returned, or its last attempt's exception has reached the caller
Terminal == pc \in {"sync_done", "sync_failed"}

\* an exception has left the body of sync and the decorator has not acted yet
Raised == pc \in {"raised", "lookup_raised"}

\* C20: sync is attempted at most 5 times; an attempt is started only by
\* the call itself or after an exception left the one before, and it starts
\* at the first selected stream; after an exception of an attempt before the
\* fifth the next attempt follows, after one of the fifth the failure reaches
\* the caller; and the sync call of a process that keeps running ends,
\* returned or failed.
C20_BoundedRetry ==
    /\ [](attempt \in 1..MaxAttempts)
    /\ [][(Raised /\ pc' # pc /\ run' = run) =>
              IF attempt < MaxAttempts
              THEN attempt' = attempt + 1 /\ pc' = "sync" /\ pos' = 1
                   /\ driven' = <<>>
              ELSE attempt' = attempt /\ pc' = "sync_failed"]_vars
    /\ [][(attempt' # attempt /\ run' = run) => Raised]_vars
    /\ [][(pc = "sync" /\ pos = 1 /\ pc' = "window_ready") =>
              driven' = <<selected[1]>>]_vars
    /\ <>[]Terminal

\* the fifth attempt raised as the four before it and sync failed
C20_Witness == pc = "sync_failed" /\ attempt = MaxAttempts /\ exc # None

\* the data lines of a report text that are not of length zero
NonEmptyLines(text) == SelectSeq(Tail(text), LAMBDA l : l # << <<>> >>)

\* a report was fetched and parsed, and its rows are being emitted
Parsed == pc = "emitting" /\ resp_kind = "tsv"

\* C16 as stated: every record carries the extraction instant, the date of a
\* fetched window and the configured vendor id, and within a window the i-th
\* record carries _line_id = i, whatever its row contains.
C16_EnrichmentDeterminism ==
    \A i \in DOMAIN records :
        LET data == records[i].data IN
        /\ data[VendorNumberKey] = config.vendor
        /\ data[TimeExtractedKey] = Strftime(extraction_time)
        /\ \E k \in DOMAIN fetches :
               /\ data[ApiReportDateKey] =
                      ReportDate(records[i].stream, fetches[k].window)
               /\ \E j \in 1..fetches[k].rows :
                      /\ data[LineIdKey] = j
                      /\ RecordsOf(records[i].stream, fetches[k].window)[j]
                             = records[i]

\* C18: the parser returns one mapping per data line that is not of length
\* zero, in order; the keys of a mapping are the normalised names ("Vendor
\* Number" and "vendor-number" both give vendor_number) of the first n header
\* cells, n being the smaller of the header's and the line's number of cells:
\* a short line's remaining columns are absent and a long line's extra cells
\* are dropped; the value of a key is the stripped cell of its (last) column.
C18_ParserShortRows ==
    Parsed =>
        LET header == response_tsv[1]
            key == [i \in DOMAIN header |-> NormalizeHeaderCell(header[i])]
            lines == NonEmptyLines(response_tsv)
        IN  /\ \A i \in DOMAIN header :
                   header[i] \in {<<"Vendor", " ", "Number">>,
                                  <<"vendor", "-", "number">>}
                       => key[i] = <<"vendor", "_", "number">>
            /\ \A i \in DOMAIN header :
                   header[i] = <<"SKU">> => key[i] = <<"sku">>
            /\ Len(rep.lines) = Len(lines)
            /\ \A r \in DOMAIN lines :
                   LET n == Min(Len(header), Len(lines[r])) IN
                   /\ DOMAIN rep.lines[r] = {key[i] : i \in 1..n}
                   /\ \A i \in 1..n :
                          (\A j \in (i + 1)..n : key[j] # key[i]) =>
                              rep.lines[r][key[i]] = Strip(lines[r][i])

\* a parsed report has a line with fewer cells than the header and a line
\* with more
C18_Witness ==
    /\ Parsed
    /\ \E r \in DOMAIN rep.lines :
           /\ Len(NonEmptyLines(response_tsv)[r]) < Len(response_tsv[1])
           /\ Cardinality(DOMAIN rep.lines[r]) < Len(response_tsv[1])
    /\ \E r \in DOMAIN rep.lines :
           Len(NonEmptyLines(response_tsv)[r]) > Len(response_tsv[1])

\* C19: the number of mappings the parser returns, and of records emitted
\* for the window, is the number of data lines that are not of length zero;
\* a line of length zero, trailing or not, yields none, a line of blanks does.
C19_ParserEmptyLineSkip ==
    Parsed =>
        LET kept == {i \in 2..Len(response_tsv) : ~ZeroLength(response_tsv[i])}
        IN  /\ Len(rep.lines) = Cardinality(kept)
            /\ index = Len(rep.lines) =>
                   Len(RecordsOf(Active, iterator)) = Cardinality(kept)

\* all rows of a report with a zero-length line before a data row and a
\* trailing zero-length line were emitted
C19_Witness ==
    /\ Parsed
    /\ index = Len(rep.lines)
    /\ records # <<>>
    /\ Len(response_tsv) >= 4
    /\ ZeroLength(response_tsv[2])
    /\ ZeroLength(response_tsv[Len(response_tsv)])

\* C23: within a process, RunState changes only when a driver starts (sync
\* enters the stream) and when a driver passes from one window to the next,
\* after the window's last record; such a step changes at most the entry of
\* the stream being driven and leaves every other entry, of a stream already
\* driven, not yet driven or not selected, as it was; a step that emits a
\* record changes nothing in RunState.
C23_RunStateFrame ==
    [][/\ (state' # state /\ run' = run) =>
              /\ \/ pc = "sync" /\ pc' = "window_ready"
                 \/ /\ pc = "emitting"
                    /\ index = Len(rep.lines)
                    /\ pc' = "window_ready"
              /\ DOMAIN state' = DOMAIN state
              /\ \A s \in DOMAIN state : s # Active => state'[s] = state[s]
       /\ Len(records') > Len(records) => state' = state]_vars

\* the sales driver has advanced its bookmark past a window with rows while
\* the stored mid-month bookmark of the financial stream, which is not
\* selected, is still there
C23_Witness ==
    /\ pc = "window_ready"
    /\ Active = "sales_report"
    /\ \A i \in DOMAIN selected : selected[i] # "financial_report"
    /\ Len(bookmark_writes) >= 2
    /\ records # <<>>
    /\ state["financial_report"] = Bookmark(5, 15, TicksPerDay - 1)

Refetching == failed.pos = pos

\* C21: in the attempt that follows an attempt which raised in window W of
\* stream S, no driver fetches a window whose advance was committed; a
\* stream before S fetches and emits nothing unless now has passed the end
\* of the window after the checkpoint the failed attempt left it with; the
\* driver of S starts at W, its first fetch is W, and the records it emits
\* for W are numbered from 1.
C21_RetryNoDuplicates ==
    (failed.pos # 0 /\ InDriver) =>
        /\ \A w \in committed[Active] : AddDelta(Active, w) <= iterator
        /\ (/\ pos < failed.pos
            /\ AddDelta(Active, Strptime(failed.state[Active])) > extraction_time) =>
               fetches = <<>> /\ records = <<>>
        /\ Refetching =>
               /\ iterator = failed.window
               /\ iterator \notin committed[Active]
               /\ fetches = <<>> => pc = "window_ready" /\ Eligible
               /\ fetches # <<>> =>
                      Len(fetches) = 1 /\ fetches[1].window = failed.window
               /\ \A j \in 1..Len(records) :
                      /\ records[j].data[LineIdKey] = j
                      /\ records[j].data[ApiReportDateKey] =
                             ReportDate(Active, failed.window)

\* a later attempt is emitting again the window of the second stream that
\* the attempt before raised in, after a committed window of that stream
\* and committed windows of the first stream
C21_Witness ==
    /\ attempt > 1
    /\ pc = "emitting"
    /\ pos = 2
    /\ Refetching
    /\ index >= 1
    /\ records # <<>>
    /\ committed[selected[1]] # {}
    /\ committed[Active] # {}

====
